---- MODULE Spec2Model ----
(***************************************************************************)
(* Model of src/gui/settings_dialogs.py: the debug log viewer              *)
(* (DebugViewDialog), the general settings dialog (GeneralSettingsDialog)  *)
(* and the client settings dialog (ClientSettingsDialog).                  *)
(*                                                                         *)
(* Python strings are modelled as sequences of one-character strings, so   *)
(* that lower(), the substring test, slicing, masking, float() and the     *)
(* JSON encoding are computed character by character.                      *)
(***************************************************************************)
EXTENDS Integers, Sequences, FiniteSets, TLC

VARIABLES
    \* ---- DebugViewDialog ----
    logMessages,      \* self.logMessages: list of stored lines
    textEdit,         \* self.textEdit: the paragraphs shown, in order
    filterList,       \* self.filterList: sequence of [text, checked]
    filterLineEdit,   \* self.filterLineEdit.text()
    signalQueue,      \* appendTextSignal emissions posted to the UI thread
    pc,               \* per thread: the remaining steps of the running handler
    arg,              \* per thread: the message argument of the running slot
    lastOp,           \* the handler that ran last (history variable)
    \* ---- GeneralSettingsDialog and its owning window ----
    thread_timeout,   \* main_window.thread_timeout
    run_timeout,      \* main_window.run_timeout
    use_chat_completion_for_thread_name,   \* main_window's flag
    threadTimeoutEdit,                     \* threadTimeoutEdit.text()
    runTimeoutEdit,                        \* runTimeoutEdit.text()
    useChatCompletionForThreadsCheckbox,   \* the check box's state
    generalDialog,    \* "open", "accepted" or "rejected"
    generalWarning,   \* whether the last OK click raised the warning box
    generalOp,        \* the handler that ran last (history variable)
    \* ---- ClientSettingsDialog, the settings file and the environment ----
    environ,                  \* os.environ, for the three variables
    settingsFile,             \* config/chat_completion_settings.json
    settings,                 \* self.settings
    clientSelection,          \* clientSelection.currentText()
    openai_api_key_input,     \* openai_api_key_input.text()
    azure_api_key_input,      \* azure_api_key_input.text()
    azure_endpoint_input,     \* azure_endpoint_input.text()
    azure_api_version_input,  \* azure_api_version_input.text()
    model_selection,          \* model_selection.currentText()
    clientDialog,             \* "none", "open", "accepted" or "closed"
    clientError,              \* the critical message box raised by the last Apply
    clientOp,                 \* the handler that ran last (history variable)
    lastApplied               \* the values of the last Apply that wrote the file (history variable)

logVars == <<logMessages, textEdit, filterList, filterLineEdit, signalQueue, pc, arg, lastOp>>

generalVars == <<thread_timeout, run_timeout, use_chat_completion_for_thread_name,
                 threadTimeoutEdit, runTimeoutEdit, useChatCompletionForThreadsCheckbox,
                 generalDialog, generalWarning, generalOp>>

clientVars == <<environ, settingsFile, settings, clientSelection, openai_api_key_input,
                azure_api_key_input, azure_endpoint_input, azure_api_version_input,
                model_selection, clientDialog, clientError, clientOp, lastApplied>>

vars == <<logVars, generalVars, clientVars>>

\* ------------------------------------------------------------------------
\* Bounds
\* ------------------------------------------------------------------------
MaxBuf == 2        \* lines stored or in flight
MaxQueue == 1      \* posted emissions not yet delivered
MaxFilters == 2    \* entries of the filter list
MaxKeyLen == 12    \* length of the longest API key in the environment

\* ------------------------------------------------------------------------
\* String helpers
\* ------------------------------------------------------------------------
\* the lines the broadcaster emits and the texts the user types
LogLines == {<<"A", "b">>, <<"b">>, <<"B", "a">>}
FilterTexts == {<<>>, <<"A">>, <<"a", "B">>, <<" ">>}

\* str.lower() on one character
LowerChar(c) ==
    CASE c = "A" -> "a"
      [] c = "B" -> "b"
      [] OTHER -> c

\* str.lower()
lower(s) == [i \in 1..Len(s) |-> LowerChar(s[i])]

\* str.startswith(prefix)
startswith(s, prefix) ==
    /\ Len(prefix) <= Len(s)
    /\ SubSeq(s, 1, Len(prefix)) = prefix

\* the Python test "needle in hay" on strings: scan the start positions
RECURSIVE find_from(_, _, _)
find_from(needle, hay, i) ==
    IF i + Len(needle) - 1 > Len(hay) THEN FALSE
    ELSE IF SubSeq(hay, i, i + Len(needle) - 1) = needle THEN TRUE
    ELSE find_from(needle, hay, i + 1)

str_in(needle, hay) == find_from(needle, hay, 1)

\* ------------------------------------------------------------------------
\* DebugViewDialog
\* ------------------------------------------------------------------------
\* any(item.checkState() == Checked for item in filterList)
is_any_filter_selected(fl) == \E i \in 1..Len(fl) : fl[i].checked

\* [item.text().lower() for item in filterList if item is checked]
RECURSIVE selected_filters(_)
selected_filters(fl) ==
    IF fl = <<>> THEN <<>>
    ELSE IF Head(fl).checked
         THEN <<lower(Head(fl).text)>> \o selected_filters(Tail(fl))
         ELSE selected_filters(Tail(fl))

\* faulty variant: all() in place of any()
matches_selected_all(message, sel) ==
    \A j \in 1..Len(sel) : str_in(sel[j], lower(message))

\* any(filter_word in message.lower() for filter_word in selected_filters)
matches_selected(message, sel) ==
    \E j \in 1..Len(sel) : str_in(sel[j], lower(message))

\* the two "for message in self.logMessages" loops of apply_filter,
\* re-adding to a cleared textEdit
RECURSIVE readd_selected(_, _, _)
readd_selected(msgs, sel, shown) ==
    IF msgs = <<>> THEN shown
    ELSE readd_selected(Tail(msgs), sel,
            IF matches_selected(Head(msgs), sel) THEN Append(shown, Head(msgs)) ELSE shown)

\* faulty variant: the matching lines are inserted at the top of the view
RECURSIVE readd_text_reversed(_, _, _)
readd_text_reversed(msgs, filter_text, shown) ==
    IF msgs = <<>> THEN shown
    ELSE readd_text_reversed(Tail(msgs), filter_text,
            IF str_in(filter_text, lower(Head(msgs))) THEN <<Head(msgs)>> \o shown ELSE shown)

RECURSIVE readd_text(_, _, _)
readd_text(msgs, filter_text, shown) ==
    IF msgs = <<>> THEN shown
    ELSE readd_text(Tail(msgs), filter_text,
            IF str_in(filter_text, lower(Head(msgs))) THEN Append(shown, Head(msgs)) ELSE shown)

\* the part of apply_filter after self.textEdit.clear(): the matching lines
\* are appended to what textEdit shows
refill(msgs, fl, line, shown) ==
    IF is_any_filter_selected(fl)
    THEN readd_selected(msgs, selected_filters(fl), shown)
    ELSE readd_text(msgs, lower(line), shown)

\* apply_filter: the contents of textEdit after the call
apply_filter(msgs, fl, line) == refill(msgs, fl, line, <<>>)

Threads == {"ui", "bg"}
Idle == <<>>

LogInit ==
    /\ logMessages = <<>>
    /\ textEdit = <<>>
    /\ filterList = <<>>
    /\ filterLineEdit = <<>>
    /\ signalQueue = <<>>
    /\ pc = [t \in Threads |-> Idle]
    /\ arg = [t \in Threads |-> <<>>]
    /\ lastOp = "init"

\* queue_append_text, called by the broadcaster on a worker thread: the
\* signal emission is posted to the UI thread's event queue
queue_append_text(message) ==
    /\ UNCHANGED <<generalVars, clientVars>>
    /\ Len(signalQueue) < MaxQueue
    /\ Len(logMessages) + Len(signalQueue) < MaxBuf
    /\ signalQueue' = Append(signalQueue, message)
    /\ lastOp' = "queue_append_text"
    /\ UNCHANGED <<logMessages, textEdit, filterList, filterLineEdit, pc, arg>>

\* faulty variant: the slot appends the line to the view and stores it, without
\* re-applying the filter
append_text_slot_no_filter ==
    /\ UNCHANGED <<generalVars, clientVars>>
    /\ signalQueue # <<>>
    /\ textEdit' = Append(textEdit, Head(signalQueue))
    /\ logMessages' = Append(logMessages, Head(signalQueue))
    /\ signalQueue' = Tail(signalQueue)
    /\ lastOp' = "append"
    /\ UNCHANGED <<filterList, filterLineEdit, pc, arg>>

\* append_text_slot, run by the UI event loop for the oldest posted emission:
\* textEdit.append(message); logMessages.append(message); apply_filter()
append_text_slot ==
    /\ UNCHANGED <<generalVars, clientVars>>
    /\ signalQueue # <<>>
    /\ LET message == Head(signalQueue)
           msgs1 == Append(logMessages, message)
       IN /\ logMessages' = msgs1
          \* the line appended to textEdit first is dropped by the
          \* textEdit.clear() of apply_filter
          /\ textEdit' = apply_filter(msgs1, filterList, filterLineEdit)
    /\ signalQueue' = Tail(signalQueue)
    /\ lastOp' = "append"
    /\ UNCHANGED <<filterList, filterLineEdit, pc, arg>>

\* faulty variant: only the view is cleared, the stored lines are kept
clear_log_window_view_only ==
    /\ UNCHANGED <<generalVars, clientVars>>
    /\ textEdit' = <<>>
    /\ lastOp' = "clear"
    /\ UNCHANGED <<logMessages, filterList, filterLineEdit, signalQueue, pc, arg>>

\* clear_log_window (the Clear button)
clear_log_window ==
    /\ UNCHANGED <<generalVars, clientVars>>
    /\ textEdit' = <<>>
    /\ logMessages' = <<>>
    /\ lastOp' = "clear"
    /\ UNCHANGED <<filterList, filterLineEdit, signalQueue, pc, arg>>

\* faulty variant: the new entry is checked
add_filter_word_checked ==
    /\ UNCHANGED <<generalVars, clientVars>>
    /\ Len(filterList) < MaxFilters
    /\ LET filter_word == filterLineEdit
       IN IF filter_word = <<>>
          THEN UNCHANGED <<filterList, textEdit>>
          ELSE LET fl1 == Append(filterList, [text |-> filter_word, checked |-> TRUE])
               IN /\ filterList' = fl1
                  /\ textEdit' = apply_filter(logMessages, fl1, filterLineEdit)
    /\ lastOp' = "add_filter_word"
    /\ UNCHANGED <<logMessages, filterLineEdit, signalQueue, pc, arg>>

\* add_filter_word (Return pressed in the filter line edit)
add_filter_word ==
    /\ UNCHANGED <<generalVars, clientVars>>
    /\ Len(filterList) < MaxFilters
    /\ LET filter_word == filterLineEdit
       IN IF filter_word = <<>>
          THEN UNCHANGED <<filterList, textEdit>>
          ELSE LET fl1 == Append(filterList, [text |-> filter_word, checked |-> FALSE])
               IN /\ filterList' = fl1
                  /\ textEdit' = apply_filter(logMessages, fl1, filterLineEdit)
    /\ lastOp' = "add_filter_word"
    /\ UNCHANGED <<logMessages, filterLineEdit, signalQueue, pc, arg>>

\* the user edits the filter line edit: textChanged -> apply_filter
set_filter_text(t) ==
    /\ UNCHANGED <<generalVars, clientVars>>
    /\ t # filterLineEdit
    /\ filterLineEdit' = t
    /\ textEdit' = apply_filter(logMessages, filterList, t)
    /\ lastOp' = "set_filter_text"
    /\ UNCHANGED <<logMessages, filterList, signalQueue, pc, arg>>

\* the user toggles the check box of entry i: itemChanged -> apply_filter
toggle_filter(i) ==
    /\ UNCHANGED <<generalVars, clientVars>>
    /\ i \in 1..Len(filterList)
    /\ LET fl1 == [filterList EXCEPT ![i].checked = ~@]
       IN /\ filterList' = fl1
          /\ textEdit' = apply_filter(logMessages, fl1, filterLineEdit)
    /\ lastOp' = "toggle_filter"
    /\ UNCHANGED <<logMessages, filterLineEdit, signalQueue, pc, arg>>

LogNext ==
    \/ \E m \in LogLines : queue_append_text(m)
    \/ append_text_slot
    \/ clear_log_window
    \/ add_filter_word
    \/ \E t \in FilterTexts : set_filter_text(t)
    \/ \E i \in 1..MaxFilters : toggle_filter(i)


\* ------------------------------------------------------------------------
\* DebugViewDialog, statement by statement, with the broadcaster's thread
\* ------------------------------------------------------------------------
\* the statements of the handlers, in order
SlotSteps == <<"textEdit.append", "logMessages.append", "textEdit.clear", "refill">>
FilterSteps == <<"textEdit.clear", "refill">>
ClearSteps == <<"textEdit.clear", "logMessages.clear">>
AddWordSteps == <<"filterList.addItem", "textEdit.clear", "refill">>

ConcLines == {<<"A", "b">>, <<"b">>}
ConcTexts == {<<>>, <<"A">>}

\* faulty variant: the slot is invoked directly in the emitting thread
DirectConnection == "direct"

\* self.appendTextSignal.connect(self.append_text_slot): the default
\* connection type delivers an emission made in another thread than the
\* receiver's by posting it to the receiver's event queue
ConnectionType == "queued"

\* the threads whose handler has yet to store its line
InFlight ==
    Cardinality({ t \in Threads : \E i \in 1..Len(pc[t]) : pc[t][i] = "logMessages.append" })

\* the broadcaster, on its own thread, calls queue_append_text(message).
\* (An emission made on the UI thread itself runs the slot inside the
\* emitting handler; no handler of this dialog logs, so none is modelled.)
bg_queue_append_text(message) ==
    /\ UNCHANGED <<generalVars, clientVars>>
    /\ Len(logMessages) + Len(signalQueue) + InFlight < MaxBuf
    /\ IF ConnectionType = "queued"
       THEN /\ Len(signalQueue) < MaxQueue
            /\ signalQueue' = Append(signalQueue, message)
            /\ UNCHANGED <<pc, arg>>
       ELSE /\ pc["bg"] = Idle
            /\ pc' = [pc EXCEPT !["bg"] = SlotSteps]
            /\ arg' = [arg EXCEPT !["bg"] = message]
            /\ UNCHANGED signalQueue
    /\ UNCHANGED <<logMessages, textEdit, filterList, filterLineEdit, lastOp>>

\* the UI event loop, idle, delivers the oldest posted emission to the slot
ui_deliver_append ==
    /\ UNCHANGED <<generalVars, clientVars>>
    /\ pc["ui"] = Idle
    /\ signalQueue # <<>>
    /\ pc' = [pc EXCEPT !["ui"] = SlotSteps]
    /\ arg' = [arg EXCEPT !["ui"] = Head(signalQueue)]
    /\ signalQueue' = Tail(signalQueue)
    /\ UNCHANGED <<logMessages, textEdit, filterList, filterLineEdit, lastOp>>

\* the UI event loop, idle, delivers a click on Clear
ui_clear_clicked ==
    /\ UNCHANGED <<generalVars, clientVars>>
    /\ pc["ui"] = Idle
    /\ pc' = [pc EXCEPT !["ui"] = ClearSteps]
    /\ UNCHANGED <<logMessages, textEdit, filterList, filterLineEdit, signalQueue, arg, lastOp>>

\* the UI event loop, idle, delivers Return in the filter line edit; with
\* an empty text add_filter_word returns at once
ui_return_pressed ==
    /\ UNCHANGED <<generalVars, clientVars>>
    /\ pc["ui"] = Idle
    /\ Len(filterList) < MaxFilters
    /\ filterLineEdit # <<>>
    /\ pc' = [pc EXCEPT !["ui"] = AddWordSteps]
    /\ UNCHANGED <<logMessages, textEdit, filterList, filterLineEdit, signalQueue, arg, lastOp>>

\* the UI event loop, idle, delivers an edit of the filter line edit
ui_text_changed(t) ==
    /\ UNCHANGED <<generalVars, clientVars>>
    /\ pc["ui"] = Idle
    /\ t # filterLineEdit
    /\ filterLineEdit' = t
    /\ pc' = [pc EXCEPT !["ui"] = FilterSteps]
    /\ UNCHANGED <<logMessages, textEdit, filterList, signalQueue, arg, lastOp>>

\* the UI event loop, idle, delivers a click on the check box of entry i
ui_item_changed(i) ==
    /\ UNCHANGED <<generalVars, clientVars>>
    /\ pc["ui"] = Idle
    /\ i \in 1..Len(filterList)
    /\ filterList' = [filterList EXCEPT ![i].checked = ~@]
    /\ pc' = [pc EXCEPT !["ui"] = FilterSteps]
    /\ UNCHANGED <<logMessages, textEdit, filterLineEdit, signalQueue, arg, lastOp>>

\* thread t runs the next statement of its handler
run_statement(t) ==
    /\ UNCHANGED <<generalVars, clientVars>>
    /\ pc[t] # Idle
    /\ pc' = [pc EXCEPT ![t] = Tail(@)]
    /\ LET st == Head(pc[t])
       IN /\ textEdit' =
                CASE st = "textEdit.append" -> Append(textEdit, arg[t])
                  [] st = "textEdit.clear" -> <<>>
                  [] st = "refill" -> refill(logMessages, filterList, filterLineEdit, textEdit)
                  [] OTHER -> textEdit
          /\ logMessages' =
                CASE st = "logMessages.append" -> Append(logMessages, arg[t])
                  [] st = "logMessages.clear" -> <<>>
                  [] OTHER -> logMessages
          /\ filterList' =
                IF st = "filterList.addItem"
                THEN Append(filterList, [text |-> filterLineEdit, checked |-> FALSE])
                ELSE filterList
    /\ UNCHANGED <<filterLineEdit, signalQueue, arg, lastOp>>

ConcNext ==
    \/ \E m \in ConcLines : bg_queue_append_text(m)
    \/ ui_deliver_append
    \/ ui_clear_clicked
    \/ ui_return_pressed
    \/ \E t \in ConcTexts : ui_text_changed(t)
    \/ \E i \in 1..MaxFilters : ui_item_changed(i)
    \/ \E t \in Threads : run_statement(t)


\* ------------------------------------------------------------------------
\* GeneralSettingsDialog
\* ------------------------------------------------------------------------
Digits == {"0", "1", "2", "3", "4", "5", "6", "7", "8", "9"}

DigitVal(c) ==
    CASE c = "0" -> 0 [] c = "1" -> 1 [] c = "2" -> 2 [] c = "3" -> 3 [] c = "4" -> 4
      [] c = "5" -> 5 [] c = "6" -> 6 [] c = "7" -> 7 [] c = "8" -> 8 [] c = "9" -> 9

DigitChar(d) ==
    CASE d = 0 -> "0" [] d = 1 -> "1" [] d = 2 -> "2" [] d = 3 -> "3" [] d = 4 -> "4"
      [] d = 5 -> "5" [] d = 6 -> "6" [] d = 7 -> "7" [] d = 8 -> "8" [] d = 9 -> "9"

RECURSIVE lstrip(_)
lstrip(s) == IF s # <<>> /\ Head(s) = " " THEN lstrip(Tail(s)) ELSE s

RECURSIVE rstrip(_)
rstrip(s) == IF s # <<>> /\ s[Len(s)] = " " THEN rstrip(SubSeq(s, 1, Len(s) - 1)) ELSE s

strip(s) == rstrip(lstrip(s))

\* the index of the first "." of s, or 0
RECURSIVE dot_index(_, _)
dot_index(s, i) ==
    IF i > Len(s) THEN 0
    ELSE IF s[i] = "." THEN i
    ELSE dot_index(s, i + 1)

AllDigits(s) == \A i \in 1..Len(s) : s[i] \in Digits

RECURSIVE int_of_digits(_, _)
int_of_digits(s, acc) ==
    IF s = <<>> THEN acc ELSE int_of_digits(Tail(s), 10 * acc + DigitVal(Head(s)))

RECURSIVE digits_of_int(_)
digits_of_int(n) ==
    IF n < 10 THEN <<DigitChar(n)>> ELSE Append(digits_of_int(n \div 10), DigitChar(n % 10))

RECURSIVE strip_zeros(_)
strip_zeros(s) == IF s # <<>> /\ s[Len(s)] = "0" THEN strip_zeros(SubSeq(s, 1, Len(s) - 1)) ELSE s

\* the result of float() on a text it rejects
ValueError == [ok |-> FALSE, neg |-> FALSE, int |-> 0, frac |-> <<>>]

\* float(text) for decimal texts without exponent: surrounding blanks are
\* dropped, then an optional sign, digits, an optional "." and digits, with
\* at least one digit.  The value is kept as sign, integer part and the
\* fraction's digits without trailing zeros, so that equal numbers are equal.
float(text) ==
    LET t == strip(text)
        signed == t # <<>> /\ Head(t) \in {"+", "-"}
        body == IF signed THEN Tail(t) ELSE t
        d == dot_index(body, 1)
        ipart == IF d = 0 THEN body ELSE SubSeq(body, 1, d - 1)
        fpart == IF d = 0 THEN <<>> ELSE SubSeq(body, d + 1, Len(body))
    IN IF AllDigits(ipart) /\ AllDigits(fpart) /\ Len(ipart) + Len(fpart) > 0
       THEN [ok |-> TRUE,
             neg |-> signed /\ Head(t) = "-",
             int |-> int_of_digits(ipart, 0),
             frac |-> strip_zeros(fpart)]
       ELSE ValueError

\* str(value) of a float
str_float(v) ==
    (IF v.neg THEN <<"-">> ELSE <<>>) \o digits_of_int(v.int) \o <<".">>
        \o (IF v.frac = <<>> THEN <<"0">> ELSE v.frac)

\* the timeouts the owning window starts with, and the texts the user types
StartTimeouts == {float(<<"3", "0">>), float(<<"2", ".", "5">>)}
TimeoutTexts ==
    { <<>>, <<"7">>, <<" ", "4", ".", "5", "0", " ">>, <<".", "5">>, <<"-", "2", ".">>,
      <<"x">>, <<"1", ".", "2", ".">>, <<".">>, <<"1", " ", "2">> }

\* GeneralSettingsDialog(parent): setup_ui fills the fields from the window
GeneralInitWith(tt, rt, flag) ==
    /\ thread_timeout = tt
    /\ run_timeout = rt
    /\ use_chat_completion_for_thread_name = flag
    /\ threadTimeoutEdit = str_float(tt)
    /\ runTimeoutEdit = str_float(rt)
    /\ useChatCompletionForThreadsCheckbox = flag
    /\ generalDialog = "open"
    /\ generalWarning = FALSE
    /\ generalOp = "init"

GeneralInit ==
    \E tt \in StartTimeouts, rt \in StartTimeouts, flag \in BOOLEAN : GeneralInitWith(tt, rt, flag)

\* the general settings dialog while another dialog is exercised
GeneralAtRest == GeneralInitWith(float(<<"3", "0">>), float(<<"3", "0">>), FALSE)

\* the menu entry constructs a new dialog: setup_ui
open_general_settings ==
    /\ UNCHANGED <<logVars, clientVars>>
    /\ generalDialog # "open"
    /\ threadTimeoutEdit' = str_float(thread_timeout)
    /\ runTimeoutEdit' = str_float(run_timeout)
    /\ useChatCompletionForThreadsCheckbox' = use_chat_completion_for_thread_name
    /\ generalDialog' = "open"
    /\ generalWarning' = FALSE
    /\ generalOp' = "open"
    /\ UNCHANGED <<thread_timeout, run_timeout, use_chat_completion_for_thread_name>>

edit_thread_timeout(t) ==
    /\ UNCHANGED <<logVars, clientVars>>
    /\ generalDialog = "open"
    /\ t # threadTimeoutEdit
    /\ threadTimeoutEdit' = t
    /\ generalOp' = "edit"
    /\ UNCHANGED <<thread_timeout, run_timeout, use_chat_completion_for_thread_name,
                   runTimeoutEdit, useChatCompletionForThreadsCheckbox, generalDialog, generalWarning>>

edit_run_timeout(t) ==
    /\ UNCHANGED <<logVars, clientVars>>
    /\ generalDialog = "open"
    /\ t # runTimeoutEdit
    /\ runTimeoutEdit' = t
    /\ generalOp' = "edit"
    /\ UNCHANGED <<thread_timeout, run_timeout, use_chat_completion_for_thread_name,
                   threadTimeoutEdit, useChatCompletionForThreadsCheckbox, generalDialog, generalWarning>>

toggle_checkbox ==
    /\ UNCHANGED <<logVars, clientVars>>
    /\ generalDialog = "open"
    /\ useChatCompletionForThreadsCheckbox' = ~useChatCompletionForThreadsCheckbox
    /\ generalOp' = "edit"
    /\ UNCHANGED <<thread_timeout, run_timeout, use_chat_completion_for_thread_name,
                   threadTimeoutEdit, runTimeoutEdit, generalDialog, generalWarning>>

\* faulty variant: each timeout is assigned as soon as it is parsed
general_accept_eager ==
    /\ UNCHANGED <<logVars, clientVars>>
    /\ generalDialog = "open"
    /\ generalOp' = "accept"
    /\ LET tt == float(threadTimeoutEdit)
           rt == float(runTimeoutEdit)
       IN /\ thread_timeout' = IF tt.ok THEN tt ELSE thread_timeout
          /\ run_timeout' = IF tt.ok /\ rt.ok THEN rt ELSE run_timeout
          /\ use_chat_completion_for_thread_name' =
                IF tt.ok /\ rt.ok THEN useChatCompletionForThreadsCheckbox
                ELSE use_chat_completion_for_thread_name
          /\ generalDialog' = IF tt.ok /\ rt.ok THEN "accepted" ELSE "open"
          /\ generalWarning' = ~(tt.ok /\ rt.ok)
    /\ UNCHANGED <<threadTimeoutEdit, runTimeoutEdit, useChatCompletionForThreadsCheckbox>>

\* GeneralSettingsDialog.accept (the OK button)
general_accept ==
    /\ UNCHANGED <<logVars, clientVars>>
    /\ generalDialog = "open"
    /\ generalOp' = "accept"
    /\ LET tt == float(threadTimeoutEdit)
           rt == float(runTimeoutEdit)
       IN IF ~tt.ok
          THEN \* float() raises on the first text: except ValueError
               /\ generalWarning' = TRUE
               /\ UNCHANGED <<thread_timeout, run_timeout, use_chat_completion_for_thread_name,
                              generalDialog>>
          ELSE IF ~rt.ok
          THEN \* float() raises on the second text: except ValueError
               /\ generalWarning' = TRUE
               /\ UNCHANGED <<thread_timeout, run_timeout, use_chat_completion_for_thread_name,
                              generalDialog>>
          ELSE /\ thread_timeout' = tt
               /\ run_timeout' = rt
               /\ use_chat_completion_for_thread_name' = useChatCompletionForThreadsCheckbox
               /\ generalDialog' = "accepted"
               /\ generalWarning' = FALSE
    /\ UNCHANGED <<threadTimeoutEdit, runTimeoutEdit, useChatCompletionForThreadsCheckbox>>

\* QDialog.reject (the Cancel button)
general_reject ==
    /\ UNCHANGED <<logVars, clientVars>>
    /\ generalDialog = "open"
    /\ generalDialog' = "rejected"
    /\ generalOp' = "reject"
    /\ UNCHANGED <<thread_timeout, run_timeout, use_chat_completion_for_thread_name,
                   threadTimeoutEdit, runTimeoutEdit, useChatCompletionForThreadsCheckbox,
                   generalWarning>>

GeneralNext ==
    \/ open_general_settings
    \/ \E t \in TimeoutTexts : edit_thread_timeout(t)
    \/ \E t \in TimeoutTexts : edit_run_timeout(t)
    \/ toggle_checkbox
    \/ general_accept
    \/ general_reject

\* ------------------------------------------------------------------------
\* ClientSettingsDialog
\* ------------------------------------------------------------------------
OPENAI_API_KEY == "OPENAI_API_KEY"
AZURE_OPENAI_API_KEY == "AZURE_OPENAI_API_KEY"
AZURE_OPENAI_ENDPOINT == "AZURE_OPENAI_ENDPOINT"
EnvNames == {OPENAI_API_KEY, AZURE_OPENAI_API_KEY, AZURE_OPENAI_ENDPOINT}

\* os.getenv(env_var, ""): a variable that is not set reads as the empty
\* string, and the dialog never unsets one, so "not set" is kept as <<>>
getenv(env_var) == environ[env_var]

\* the member names of AIClientType, and the keys of the settings file
OPEN_AI_NAME == <<"O", "P", "E", "N", "_", "A", "I">>
AZURE_OPEN_AI_NAME == <<"A", "Z", "U", "R", "E", "_", "O", "P", "E", "N", "_", "A", "I">>
K_ai_client_type == <<"a", "i", "_", "c", "l", "i", "e", "n", "t", "_", "t", "y", "p", "e">>
K_model == <<"m", "o", "d", "e", "l">>
K_api_version == <<"a", "p", "i", "_", "v", "e", "r", "s", "i", "o", "n">>
DEFAULT_API_VERSION == <<"2", "0", "2", "3", "-", "0", "9", "-", "0", "1", "-", "p", "r", "e", "v", "i", "e", "w">>

\* AIClientType: an Enum whose members carry a name (AIClientType.X.name,
\* AIClientType[name]); a member is an object of the Enum's type
AIClientType_OPEN_AI == [type |-> "AIClientType", value |-> OPEN_AI_NAME]
AIClientType_AZURE_OPEN_AI == [type |-> "AIClientType", value |-> AZURE_OPEN_AI_NAME]

\* a Python str object
Str(text) == [type |-> "str", value |-> text]

\* Python's == : objects of unrelated types are unequal (Enum members
\* compare by identity, str compares with str only)
py_eq(a, b) == a.type = b.type /\ a.value = b.value

\* dict helpers: self.settings maps key strings to value strings
EmptyDict == [k \in {} |-> <<>>]
dict_set(d, k, v) == [x \in DOMAIN d \cup {k} |-> IF x = k THEN v ELSE d[x]]
dict_get(d, k, default) == IF k \in DOMAIN d THEN d[k] ELSE default

QUOTE == "\""
BACKSLASH == "\\"
NEWLINE == "\n"

\* faulty variant: the string is written between quotes as it is
json_escape_none(text) == text

\* the body of a JSON string literal: json.dumps escapes the quote and the
\* backslash
RECURSIVE json_escape(_)
json_escape(text) ==
    IF text = <<>> THEN <<>>
    ELSE (IF Head(text) \in {QUOTE, BACKSLASH} THEN <<BACKSLASH, Head(text)>> ELSE <<Head(text)>>)
            \o json_escape(Tail(text))

json_string(text) == <<QUOTE>> \o json_escape(text) \o <<QUOTE>>

INDENT == <<" ", " ", " ", " ">>

\* json.dumps(settings, indent=4) of the three-key dict built by apply_settings
json_dumps(ai_client_type, model, api_version) ==
    <<"{", NEWLINE>>
    \o INDENT \o json_string(K_ai_client_type) \o <<":", " ">> \o json_string(ai_client_type)
    \o <<",", NEWLINE>>
    \o INDENT \o json_string(K_model) \o <<":", " ">> \o json_string(model)
    \o <<",", NEWLINE>>
    \o INDENT \o json_string(K_api_version) \o <<":", " ">> \o json_string(api_version)
    \o <<NEWLINE, "}">>

\* the JSON reader, for an object of string members ------------------------
JsonFail == [ok |-> FALSE, value |-> <<>>, next |-> 0]

RECURSIVE skip_ws(_, _)
skip_ws(s, i) ==
    IF i <= Len(s) /\ s[i] \in {" ", NEWLINE} THEN skip_ws(s, i + 1) ELSE i

\* the characters of a string literal from position i, after its opening quote
RECURSIVE scan_string(_, _, _)
scan_string(s, i, acc) ==
    IF i > Len(s) THEN JsonFail
    ELSE IF s[i] = QUOTE THEN [ok |-> TRUE, value |-> acc, next |-> i + 1]
    ELSE IF s[i] = BACKSLASH
         THEN IF i + 1 <= Len(s) /\ s[i + 1] \in {QUOTE, BACKSLASH}
              THEN scan_string(s, i + 2, Append(acc, s[i + 1]))
              ELSE JsonFail
    ELSE scan_string(s, i + 1, Append(acc, s[i]))

parse_string(s, i) ==
    IF i <= Len(s) /\ s[i] = QUOTE THEN scan_string(s, i + 1, <<>>) ELSE JsonFail

\* the members of an object from position i, added to dict d; a later member
\* replaces an earlier one of the same key
RECURSIVE parse_members(_, _, _)
parse_members(s, i, d) ==
    LET k == parse_string(s, skip_ws(s, i))
        c == skip_ws(s, k.next)
        v == parse_string(s, skip_ws(s, c + 1))
        e == skip_ws(s, v.next)
    IN IF ~k.ok \/ c > Len(s) \/ s[c] # ":" THEN JsonFail
       ELSE IF ~v.ok \/ e > Len(s) THEN JsonFail
       ELSE IF s[e] = "," THEN parse_members(s, e + 1, dict_set(d, k.value, v.value))
       ELSE IF s[e] = "}"
            THEN [ok |-> skip_ws(s, e + 1) > Len(s),
                  value |-> dict_set(d, k.value, v.value), next |-> e + 1]
       ELSE JsonFail

\* json.load(file)
json_load(s) ==
    LET b == skip_ws(s, 1)
    IN IF b > Len(s) \/ s[b] # "{" THEN JsonFail
       ELSE IF skip_ws(s, b + 1) <= Len(s) /\ s[skip_ws(s, b + 1)] = "}"
            THEN [ok |-> skip_ws(s, skip_ws(s, b + 1) + 1) > Len(s), value |-> EmptyDict, next |-> 0]
       ELSE parse_members(s, b + 1, EmptyDict)

NoFile == [exists |-> FALSE, text |-> <<>>]

\* load_settings on the fresh self.settings = {}: the outcome of reading
\* the file, with the mapping in its value
load_settings(file) ==
    IF file.exists THEN json_load(file.text) ELSE [ok |-> TRUE, value |-> EmptyDict, next |-> 0]

\* set_key_input_value: '*' * (len(key) - 4) + key[-4:]; the field of a
\* fresh QLineEdit stays empty when the variable is empty
MaskKeep == 4
Stars(n) == [i \in 1..n |-> "*"]
Last(key, n) == IF Len(key) <= n THEN key ELSE SubSeq(key, Len(key) - n + 1, Len(key))
set_key_input_value(env_var) ==
    LET key == getenv(env_var)
    IN IF key # <<>>
       THEN Stars(IF Len(key) - MaskKeep > 0 THEN Len(key) - MaskKeep ELSE 0) \o Last(key, MaskKeep)
       ELSE <<>>

\* save_environment_variable: if value and not value.startswith('*******')
SentinelStars == 7
save_environment_variable(env, var_name, value) ==
    IF value # <<>> /\ ~startswith(value, Stars(SentinelStars))
    THEN [env EXCEPT ![var_name] = value]
    ELSE env

\* the API keys found in the environment, the texts the user types, and
\* the settings files found on disk
KeyOfLen(n) == [i \in 1..n |-> DigitChar(i % 10)]
KeyLens == {0, 4, 5, 10, 11, MaxKeyLen}
AzureKeyLens == {0, MaxKeyLen}
StartEndpoint == <<"e">>
KeyTexts == {<<>>, <<"n", "e", "w">>}
ClearTexts == {<<>>}
VersionTexts == {<<>>}
ModelTexts == {<<"g">>, <<"q", QUOTE, BACKSLASH>>}
ListedModel == <<"g">>
OlderFile == [exists |-> TRUE, text |-> <<"{", "\"", "m", "o", "d", "e", "l", "\"", ":", " ", "\"", "g", "\"", ",", " ", "\"", "x", "\"", ":", " ", "\"", "\"", "}">>]
StartFiles == {NoFile, OlderFile}

NotApplied == [set |-> FALSE, ai_client_type |-> <<>>, model |-> <<>>, api_version |-> <<>>]

\* no dialog instance: QDialog.accept() and closing end the dialog, and the
\* next showing constructs a new instance, so the widgets of a dialog that
\* is gone are kept blank
dialog_ends(result) ==
    /\ clientDialog' = result
    /\ settings' = EmptyDict
    /\ clientSelection' = <<>>
    /\ openai_api_key_input' = <<>>
    /\ azure_api_key_input' = <<>>
    /\ azure_endpoint_input' = <<>>
    /\ azure_api_version_input' = <<>>
    /\ model_selection' = <<>>

ClientInitWith(openai_key, azure_key, file) ==
    /\ environ = [v \in EnvNames |->
                    CASE v = OPENAI_API_KEY -> openai_key
                      [] v = AZURE_OPENAI_API_KEY -> azure_key
                      [] OTHER -> StartEndpoint]
    /\ settingsFile = file
    /\ settings = EmptyDict
    /\ clientSelection = <<>>
    /\ openai_api_key_input = <<>>
    /\ azure_api_key_input = <<>>
    /\ azure_endpoint_input = <<>>
    /\ azure_api_version_input = <<>>
    /\ model_selection = <<>>
    /\ clientDialog = "none"
    /\ clientError = "none"
    /\ clientOp = "init"
    /\ lastApplied = NotApplied

\* before the dialog is constructed for the first time
ClientInit ==
    \E a \in KeyLens, b \in AzureKeyLens, file \in StartFiles :
        ClientInitWith(KeyOfLen(a), KeyOfLen(b), file)

\* the client settings dialog while another dialog is exercised
ClientAtRest == ClientInitWith(<<>>, <<>>, NoFile)

\* fill_client_model_selection: the text of the editable model box after
\* the call.  For OPEN_AI the factory's client lists the models ("listed",
\* "empty") or raises ("fails", caught: the default model is then not set);
\* for AZURE_OPEN_AI nothing is listed.
fill_client_model_selection(ai_client_type, outcome, loaded) ==
    LET default_model == dict_get(loaded, K_model, <<>>)
    IN IF py_eq(ai_client_type, AIClientType_AZURE_OPEN_AI)
       THEN default_model
       ELSE IF outcome = "fails" THEN <<>>
       ELSE IF default_model # <<>> THEN default_model
       ELSE IF outcome = "listed" THEN ListedModel
       ELSE <<>>

\* the client type shown by the combo box after fill_client_model_selection
shown_client_type(ai_client_type) ==
    IF py_eq(ai_client_type, AIClientType_AZURE_OPEN_AI)
    THEN AZURE_OPEN_AI_NAME
    ELSE OPEN_AI_NAME

\* AIClientType[name]
AIClientType_of(name) ==
    IF name = AZURE_OPEN_AI_NAME THEN AIClientType_AZURE_OPEN_AI ELSE AIClientType_OPEN_AI

FactoryOutcomes == {"fails", "empty", "listed"}

\* ClientSettingsDialog(main_window): init_settings, load_settings, init_ui,
\* set_initial_states
open_client_settings(outcome) ==
    /\ UNCHANGED <<logVars, generalVars>>
    /\ clientDialog # "open"
    /\ \E read \in {load_settings(settingsFile)} :
          /\ read.ok
          /\ \E ai_client_type \in {dict_get(read.value, K_ai_client_type, OPEN_AI_NAME)} :
                /\ settings' = read.value
                /\ azure_api_version_input' = dict_get(read.value, K_api_version, DEFAULT_API_VERSION)
                /\ clientSelection' = shown_client_type(AIClientType_of(ai_client_type))
                /\ model_selection' =
                      fill_client_model_selection(AIClientType_of(ai_client_type), outcome, read.value)
    /\ openai_api_key_input' = set_key_input_value(OPENAI_API_KEY)
    /\ azure_api_key_input' = set_key_input_value(AZURE_OPENAI_API_KEY)
    /\ azure_endpoint_input' = getenv(AZURE_OPENAI_ENDPOINT)
    /\ clientDialog' = "open"
    /\ clientError' = "none"
    /\ clientOp' = "open"
    /\ UNCHANGED <<environ, settingsFile, lastApplied>>

\* the user picks a client type: update_model_selection
select_client(name, outcome) ==
    /\ UNCHANGED <<logVars, generalVars>>
    /\ clientDialog = "open"
    /\ name # clientSelection
    /\ clientSelection' = name
    /\ model_selection' = fill_client_model_selection(AIClientType_of(name), outcome, settings)
    /\ clientOp' = "edit"
    /\ UNCHANGED <<environ, settingsFile, settings, openai_api_key_input, azure_api_key_input,
                   azure_endpoint_input, azure_api_version_input, clientDialog, clientError,
                   lastApplied>>

edit_openai_key(t) ==
    /\ UNCHANGED <<logVars, generalVars>>
    /\ clientDialog = "open"
    /\ t # openai_api_key_input
    /\ openai_api_key_input' = t
    /\ clientOp' = "edit"
    /\ UNCHANGED <<environ, settingsFile, settings, clientSelection, azure_api_key_input,
                   azure_endpoint_input, azure_api_version_input, model_selection,
                   clientDialog, clientError, lastApplied>>

edit_azure_key(t) ==
    /\ UNCHANGED <<logVars, generalVars>>
    /\ clientDialog = "open"
    /\ t # azure_api_key_input
    /\ azure_api_key_input' = t
    /\ clientOp' = "edit"
    /\ UNCHANGED <<environ, settingsFile, settings, clientSelection, openai_api_key_input,
                   azure_endpoint_input, azure_api_version_input, model_selection,
                   clientDialog, clientError, lastApplied>>

edit_azure_endpoint(t) ==
    /\ UNCHANGED <<logVars, generalVars>>
    /\ clientDialog = "open"
    /\ t # azure_endpoint_input
    /\ azure_endpoint_input' = t
    /\ clientOp' = "edit"
    /\ UNCHANGED <<environ, settingsFile, settings, clientSelection, openai_api_key_input,
                   azure_api_key_input, azure_api_version_input, model_selection,
                   clientDialog, clientError, lastApplied>>

edit_api_version(t) ==
    /\ UNCHANGED <<logVars, generalVars>>
    /\ clientDialog = "open"
    /\ t # azure_api_version_input
    /\ azure_api_version_input' = t
    /\ clientOp' = "edit"
    /\ UNCHANGED <<environ, settingsFile, settings, clientSelection, openai_api_key_input,
                   azure_api_key_input, azure_endpoint_input, model_selection,
                   clientDialog, clientError, lastApplied>>

edit_model(t) ==
    /\ UNCHANGED <<logVars, generalVars>>
    /\ clientDialog = "open"
    /\ t # model_selection
    /\ model_selection' = t
    /\ clientOp' = "edit"
    /\ UNCHANGED <<environ, settingsFile, settings, clientSelection, openai_api_key_input,
                   azure_api_key_input, azure_endpoint_input, azure_api_version_input,
                   clientDialog, clientError, lastApplied>>

\* save_settings(json.dumps(settings, indent=4)): the file is opened with
\* 'w' and holds the dump alone
save_settings(ai_client_type, model, api_version) ==
    [exists |-> TRUE, text |-> json_dumps(ai_client_type, model, api_version)]

\* apply_settings (the Apply button)
apply_settings ==
    /\ UNCHANGED <<logVars, generalVars>>
    /\ clientDialog = "open"
    /\ clientOp' = "apply"
    /\ LET ai_client_type == Str(clientSelection)
           stays == UNCHANGED <<environ, settingsFile, settings, clientSelection,
                                openai_api_key_input, azure_api_key_input, azure_endpoint_input,
                                azure_api_version_input, model_selection, clientDialog, lastApplied>>
       IN IF py_eq(ai_client_type, AIClientType_OPEN_AI) /\ openai_api_key_input = <<>>
          THEN /\ clientError' = "OpenAI API Key is required"
               /\ stays
          ELSE IF /\ py_eq(ai_client_type, AIClientType_AZURE_OPEN_AI)
                  /\ (azure_api_key_input = <<>> \/ azure_endpoint_input = <<>>)
          THEN /\ clientError' = "Azure OpenAI API Key and Endpoint are required"
               /\ stays
          ELSE /\ environ' =
                    save_environment_variable(
                        save_environment_variable(
                            save_environment_variable(environ, OPENAI_API_KEY, openai_api_key_input),
                            AZURE_OPENAI_API_KEY, azure_api_key_input),
                        AZURE_OPENAI_ENDPOINT, azure_endpoint_input)
               /\ settingsFile' = save_settings(clientSelection, model_selection, azure_api_version_input)
               /\ dialog_ends("accepted")
               /\ clientError' = "none"
               /\ lastApplied' = [set |-> TRUE, ai_client_type |-> clientSelection,
                                  model |-> model_selection,
                                  api_version |-> azure_api_version_input]

\* the dialog is closed without Apply
close_client_settings ==
    /\ UNCHANGED <<logVars, generalVars>>
    /\ clientDialog = "open"
    /\ dialog_ends("closed")
    /\ clientOp' = "close"
    /\ UNCHANGED <<environ, settingsFile, clientError, lastApplied>>

ClientNext ==
    \/ \E o \in FactoryOutcomes : open_client_settings(o)
    \/ \E n \in {OPEN_AI_NAME, AZURE_OPEN_AI_NAME}, o \in FactoryOutcomes : select_client(n, o)
    \/ \E t \in KeyTexts : edit_openai_key(t)
    \/ \E t \in ClearTexts : edit_azure_key(t)
    \/ \E t \in ClearTexts : edit_azure_endpoint(t)
    \/ \E t \in VersionTexts : edit_api_version(t)
    \/ \E t \in ModelTexts : edit_model(t)
    \/ apply_settings
    \/ close_client_settings

\* ------------------------------------------------------------------------
\* Specifications
\* ------------------------------------------------------------------------
InitLog == LogInit /\ GeneralAtRest /\ ClientAtRest
SpecLog == InitLog /\ [][LogNext]_vars

SpecConc == InitLog /\ [][ConcNext]_vars

InitGeneral == LogInit /\ GeneralInit /\ ClientAtRest
SpecGeneral == InitGeneral /\ [][GeneralNext]_vars

InitClient == LogInit /\ GeneralAtRest /\ ClientInit
SpecClient == InitClient /\ [][ClientNext]_vars

\* ------------------------------------------------------------------------
\* Properties of the log viewer
\* ------------------------------------------------------------------------
\* two characters that differ at most in case
SameLetter(c, d) == c = d \/ {c, d} = {"a", "A"} \/ {c, d} = {"b", "B"}

\* needle occurs in hay, ignoring case
OccursIgnoringCase(needle, hay) ==
    \E i \in 0..(Len(hay) - Len(needle)) :
        \A k \in 1..Len(needle) : SameLetter(hay[i + k], needle[k])

CheckedWords == { filterList[i].text : i \in { j \in 1..Len(filterList) : filterList[j].checked } }

Shown(m) == \E j \in 1..Len(textEdit) : textEdit[j] = m

\* the rule of the specification for one line
Passes(m) ==
    IF CheckedWords # {}
    THEN \E w \in CheckedWords : OccursIgnoringCase(w, m)
    ELSE filterLineEdit = <<>> \/ OccursIgnoringCase(filterLineEdit, m)

\* C3: with at least one entry checked a buffered line is shown iff it
\* contains, ignoring case, the word of some checked entry (the quick-filter
\* text is ignored); with none checked it is shown iff the quick-filter text
\* is empty or occurs in it, ignoring case.
C3_FilterRule ==
    \A i \in 1..Len(logMessages) :
        Shown(logMessages[i]) <=>
            IF \E j \in 1..Len(filterList) : filterList[j].checked
            THEN \E j \in 1..Len(filterList) :
                    filterList[j].checked /\ OccursIgnoringCase(filterList[j].text, logMessages[i])
            ELSE filterLineEdit = <<>> \/ OccursIgnoringCase(filterLineEdit, logMessages[i])

\* a line is shown through a checked entry although the non-empty quick
\* filter does not occur in it, and another buffered line is hidden
C3_Witness ==
    /\ CheckedWords # {}
    /\ filterLineEdit # <<>>
    /\ \E i \in 1..Len(logMessages) :
          Shown(logMessages[i]) /\ ~OccursIgnoringCase(filterLineEdit, logMessages[i])
    /\ \E i \in 1..Len(logMessages) : ~Shown(logMessages[i])

\* C4: after every operation the view is exactly the filter applied to the
\* current buffer, filter entries and quick-filter text.
C4_ViewIsFilterOfState == textEdit = SelectSeq(logMessages, Passes)

\* a line has just been appended and is hidden by the active filter
C4_Witness ==
    /\ lastOp = "append"
    /\ logMessages # <<>>
    /\ ~Shown(logMessages[Len(logMessages)])
    /\ textEdit # <<>>

\* C6: clear empties the buffer and the view and leaves the filter entries,
\* their order, their flags and the quick-filter text unchanged.
C6_ClearFrame ==
    [][lastOp' = "clear" =>
          /\ logMessages' = <<>>
          /\ textEdit' = <<>>
          /\ filterList' = filterList
          /\ filterLineEdit' = filterLineEdit]_vars

\* clear has run with two entries, one checked, and a quick-filter text
C6_Witness ==
    /\ lastOp = "clear"
    /\ Len(filterList) = 2
    /\ filterList[1].checked /\ ~filterList[2].checked
    /\ filterLineEdit # <<>>
    /\ logMessages = <<>>
    /\ signalQueue = <<>>

IsBlank(t) == \A i \in 1..Len(t) : t[i] = " "

IsSubsequence(s, t) ==
    \E f \in [1..Len(s) -> 1..Len(t)] :
        /\ \A i, j \in 1..Len(s) : i < j => f[i] < f[j]
        /\ \A i \in 1..Len(s) : s[i] = t[f[i]]

Count(s, m) == Cardinality({ i \in 1..Len(s) : s[i] = m })

IsPrefix(s, t) == Len(s) <= Len(t) /\ SubSeq(t, 1, Len(s)) = s

\* C9: the view is an order-preserving subsequence of the buffer in which
\* every shown line occurs as often as in the buffer, and the buffer only
\* grows at its end except through clear.
C9_OrderPreserved ==
    /\ [](/\ IsSubsequence(textEdit, logMessages)
          /\ \A i \in 1..Len(textEdit) :
                Count(textEdit, textEdit[i]) = Count(logMessages, textEdit[i]))
    /\ [][lastOp' # "clear" => IsPrefix(logMessages, logMessages')]_vars

\* two different lines are shown, in the order of their insertion
C9_Witness ==
    /\ Len(logMessages) = 2
    /\ textEdit = logMessages
    /\ textEdit[1] # textEdit[2]
    /\ filterLineEdit # <<>>

AllIdle == \A t \in Threads : pc[t] = Idle

\* C5: the slot never runs on the broadcaster's thread; a handler starts
\* only when no handler is running on any thread, so that the statements of
\* two operations never interleave; and between handlers the view is the
\* filter of the buffer, never the product of a partly executed operation.
C5_HandlersSerial ==
    /\ [](pc["bg"] = Idle)
    /\ [](AllIdle => textEdit = SelectSeq(logMessages, Passes))
    /\ [][\A t \in Threads : (pc[t] = Idle /\ pc'[t] # Idle) => AllIdle]_vars

\* the broadcaster has emitted a line while a UI handler is in the middle of
\* its statements, and the line waits in the queue
C5_Witness ==
    /\ signalQueue # <<>>
    /\ pc["ui"] = <<"logMessages.clear">>
    /\ logMessages # <<>>
    /\ filterList # <<>>

\* ------------------------------------------------------------------------
\* Properties of the general settings dialog
\* ------------------------------------------------------------------------
\* a decimal number: optional sign, digits with at most one ".", at least
\* one digit, blanks allowed around it
IsNumber(text) ==
    \E a, b \in 0..Len(text) :
        /\ a + b <= Len(text)
        /\ \A i \in 1..a : text[i] = " "
        /\ \A i \in (Len(text) - b + 1)..Len(text) : text[i] = " "
        /\ LET core == SubSeq(text, a + 1, Len(text) - b)
               unsigned == IF core # <<>> /\ core[1] \in {"+", "-"} THEN Tail(core) ELSE core
           IN /\ \A i \in 1..Len(unsigned) : unsigned[i] \in Digits \cup {"."}
              /\ Cardinality({ i \in 1..Len(unsigned) : unsigned[i] = "." }) <= 1
              /\ \E i \in 1..Len(unsigned) : unsigned[i] \in Digits

\* C8: a click on OK with a text that is no number raises the warning,
\* leaves the dialog open and changes none of the window's three settings;
\* with two numbers it assigns all three and closes the dialog.
C8_AcceptAllOrNothing ==
    [][generalOp' = "accept" =>
          IF IsNumber(threadTimeoutEdit) /\ IsNumber(runTimeoutEdit)
          THEN /\ str_float(thread_timeout') = str_float(float(threadTimeoutEdit))
               /\ str_float(run_timeout') = str_float(float(runTimeoutEdit))
               /\ use_chat_completion_for_thread_name' = useChatCompletionForThreadsCheckbox
               /\ generalDialog' = "accepted"
               /\ ~generalWarning'
          ELSE /\ generalWarning'
               /\ generalDialog' = "open"
               /\ UNCHANGED <<thread_timeout, run_timeout, use_chat_completion_for_thread_name>>]_vars

\* OK was clicked with a valid thread timeout that differs from the
\* window's, an invalid run timeout and a changed check box
C8_Witness ==
    /\ generalOp = "accept"
    /\ generalWarning
    /\ generalDialog = "open"
    /\ IsNumber(threadTimeoutEdit)
    /\ ~IsNumber(runTimeoutEdit)
    /\ float(threadTimeoutEdit) # thread_timeout
    /\ useChatCompletionForThreadsCheckbox # use_chat_completion_for_thread_name

\* ------------------------------------------------------------------------
\* Properties of the client settings dialog
\* ------------------------------------------------------------------------
\* a credential that the selected client type requires is missing
RequiredFieldMissing ==
    \/ clientSelection = OPEN_AI_NAME /\ openai_api_key_input = <<>>
    \/ /\ clientSelection = AZURE_OPEN_AI_NAME
       /\ (azure_api_key_input = <<>> \/ azure_endpoint_input = <<>>)

\* C1 as stated: Apply with a required credential missing reports an error
\* and leaves the settings file, the three environment variables and the
\* dialog as they are.
C1_ValidationBlocksWrites ==
    [][(clientOp' = "apply" /\ clientDialog = "open" /\ RequiredFieldMissing) =>
          /\ clientError' # "none"
          /\ settingsFile' = settingsFile
          /\ environ' = environ
          /\ clientDialog' = "open"]_vars

\* shown is key with all but its last four characters replaced by stars
IsMaskOf(shown, key) ==
    /\ Len(shown) = Len(key)
    /\ \A i \in 1..Len(key) : shown[i] = IF i > Len(key) - 4 THEN key[i] ELSE "*"

KeyField(v) == IF v = OPENAI_API_KEY THEN openai_api_key_input ELSE azure_api_key_input

\* C2 as stated: Apply with a key field still showing the mask of its
\* non-empty environment variable leaves that variable as it was.
C2_MaskNeverWrittenBack ==
    [][(clientOp' = "apply" /\ clientDialog = "open") =>
          \A v \in {OPENAI_API_KEY, AZURE_OPENAI_API_KEY} :
              (environ[v] # <<>> /\ IsMaskOf(KeyField(v), environ[v])) => environ'[v] = environ[v]]_vars

SettingsKeys == {K_ai_client_type, K_model, K_api_version}

HoldsLastApplied(d) ==
    /\ DOMAIN d = SettingsKeys
    /\ d[K_ai_client_type] = lastApplied.ai_client_type
    /\ d[K_model] = lastApplied.model
    /\ d[K_api_version] = lastApplied.api_version

\* C10: after an Apply that wrote the file, the file holds exactly the three
\* keys with the values selected, and a dialog constructed afterwards loads
\* these three values; with no settings file a constructed dialog holds the
\* empty mapping, in which "model" with default "" reads "".
C10_SettingsRoundTrip ==
    /\ (clientOp = "apply" /\ clientDialog = "accepted") =>
          /\ settingsFile.exists
          /\ json_load(settingsFile.text).ok
          /\ HoldsLastApplied(json_load(settingsFile.text).value)
    /\ (clientOp = "open" /\ lastApplied.set) => HoldsLastApplied(settings)
    /\ (clientOp = "open" /\ ~settingsFile.exists) =>
          /\ DOMAIN settings = {}
          /\ dict_get(settings, K_model, <<>>) = <<>>

\* a dialog has been constructed after an Apply for OPEN_AI with a model
\* name that holds a quote and a backslash and an empty API version
C10_Witness ==
    /\ clientOp = "open"
    /\ lastApplied.set
    /\ lastApplied.ai_client_type = OPEN_AI_NAME
    /\ lastApplied.model = <<"q", QUOTE, BACKSLASH>>
    /\ lastApplied.api_version = <<>>
    /\ model_selection = lastApplied.model

====
